---- MODULE Spec2Model ----
(***************************************************************************)
(* NotionAutoFill: one classification run of TimeRecordClassifier          *)
(* (main.py) against the Notion record store (notion_client.py) and the    *)
(* chat-completion classifier (openai_client.py).                          *)
(*                                                                         *)
(* Text is a sequence of one-character strings, so that lower(), `in` and  *)
(* equality are computed character by character as Python computes them.   *)
(***************************************************************************)
EXTENDS Integers, Sequences, FiniteSets, TLC

VARIABLES
    pc,                     \* position of the run inside main() / process_time_records
    env,                    \* the required settings that are set in the environment
    target_date,            \* the --date argument (None: not given)
    date_str,               \* local: the date whose entries are processed
    store,                  \* the Notion database: sequence of pages, index = page id
    classification_options, \* local of process_time_records
    time_type_options,      \* local of process_time_records
    records,                \* local: result of get_time_records
    idx,                    \* position of the for loop in records
    classification,         \* local: category to write for records[idx]
    time_type,              \* local: time type to write for records[idx]
    classified_count,       \* local counter
    calls,                  \* every gateway call issued so far, in order
    result,                 \* return value of process_time_records
    exit_code,              \* argument of sys.exit
    raw,                    \* SpecMatch: answer returned by OpenAIClient.classify
    options,                \* SpecMatch: vocabulary handed to the routine
    resolved,               \* SpecMatch: value returned by classify_time_record
    resolved_tt,            \* SpecMatch: value returned by determine_time_type
    database,               \* SpecFetch: the dates of the pages of the database
    query_date,             \* SpecFetch: target_date of get_time_records
    response,               \* SpecFetch: the store's answer to the query
    fetched,                \* SpecFetch: value returned by get_time_records
    api_response,           \* SpecClassify: what the chat completions request met
    classified              \* SpecClassify: value returned by OpenAIClient.classify

vars == <<pc, env, target_date, date_str, store, classification_options, time_type_options,
          records, idx, classification, time_type, classified_count, calls,
          result, exit_code, raw, options, resolved, resolved_tt,
          database, query_date, response, fetched, api_response, classified>>

runVars == <<env, target_date, date_str, store, classification_options, time_type_options,
             records, idx, classification, time_type, classified_count, calls,
             result, exit_code>>

matchVars == <<raw, options, resolved, resolved_tt>>

fetchVars == <<database, query_date, response, fetched>>

classifyVars == <<api_response, classified>>

\* the variables of the specifications of single routines
sideVars == <<matchVars, fetchVars, classifyVars>>

----------------------------------------------------------------------------
(* Bounds *)

MaxEntries == 2     \* pages of the target date in the store
MaxLen == 2         \* length of an answer / a label under SpecMatch
MaxVocab == 2       \* labels in a vocabulary under SpecMatch
MaxVocabChars == 4  \* characters in a vocabulary under SpecMatch

\* SpecClassify: number of pieces a response content is made of
MaxPieces == 3

\* SpecFetch: number of pages in the database
MaxDbPages == 3

\* SpecFetch: number of results the store puts in one response to a query
\* (the request of get_time_records sets no page_size and no start_cursor)
PageSize == 2

----------------------------------------------------------------------------
(* Text *)

\* Python None; no text equals it (its element is not a single character).
None == <<"None">>

Empty == <<>>

UpperLetters == <<"A","B","C","D","E","F","G","H","I","J","K","L","M",
                  "N","O","P","Q","R","S","T","U","V","W","X","Y","Z">>

LowerLetters == <<"a","b","c","d","e","f","g","h","i","j","k","l","m",
                  "n","o","p","q","r","s","t","u","v","w","x","y","z">>

\* str.lower() on one character
LowerChar(c) ==
    IF \E i \in DOMAIN UpperLetters : UpperLetters[i] = c
    THEN LowerLetters[CHOOSE i \in DOMAIN UpperLetters : UpperLetters[i] = c]
    ELSE c

\* str.lower()
Lower(s) == [i \in 1..Len(s) |-> LowerChar(s[i])]

\* Python `needle in hay` on two strings
Contains(hay, needle) ==
    \E i \in 0..(Len(hay) - Len(needle)) :
        \A j \in 1..Len(needle) : hay[i + j] = needle[j]

\* Python `x in list`
InList(x, list) == \E i \in DOMAIN list : list[i] = x

IsSpace(c) == c \in {" ", "\t", "\n"}

\* str.strip() == "" : the text is empty or only whitespace
BlankAfterStrip(s) == \A i \in DOMAIN s : IsSpace(s[i])

RECURSIVE StripLeft(_)
StripLeft(s) == IF s # <<>> /\ IsSpace(Head(s)) THEN StripLeft(Tail(s)) ELSE s

RECURSIVE StripRight(_)
StripRight(s) ==
    IF s # <<>> /\ IsSpace(s[Len(s)]) THEN StripRight(SubSeq(s, 1, Len(s) - 1)) ELSE s

\* str.strip()
Strip(s) == StripRight(StripLeft(s))

\* position of the first occurrence of pat in s at or after position i
\* (str.find / re.search of a literal), 0 if there is none
StartsWith(s, i, pat) ==
    /\ i + Len(pat) - 1 <= Len(s)
    /\ \A j \in 1..Len(pat) : s[i + j - 1] = pat[j]

Find(s, i, pat) ==
    IF \E k \in i..Len(s) : StartsWith(s, k, pat)
    THEN CHOOSE k \in i..Len(s) :
            StartsWith(s, k, pat) /\ \A l \in i..(k - 1) : ~StartsWith(s, l, pat)
    ELSE 0

\* str.split('\n')
RECURSIVE SplitLines(_)
SplitLines(s) ==
    LET k == Find(s, 1, <<"\n">>) IN
    IF k = 0 THEN << s >>
    ELSE << SubSeq(s, 1, k - 1) >> \o SplitLines(SubSeq(s, k + 1, Len(s)))

Digits == <<"0","1","2","3","4","5","6","7","8","9">>

IsDigit(c) == \E i \in DOMAIN Digits : Digits[i] = c

DigitValue(c) == (CHOOSE i \in DOMAIN Digits : Digits[i] = c) - 1

\* int() of a text of digits
RECURSIVE Number(_)
Number(t) ==
    IF t = <<>> THEN 0
    ELSE Number(SubSeq(t, 1, Len(t) - 1)) * 10 + DigitValue(t[Len(t)])

\* str() of a natural number
RECURSIVE Decimal(_)
Decimal(n) ==
    IF n < 10 THEN << Digits[n + 1] >>
    ELSE Decimal(n \div 10) \o << Digits[(n % 10) + 1] >>

\* %m and %d of strftime: two digits
Pad2(n) == << Digits[(n \div 10) + 1], Digits[(n % 10) + 1] >>

\* the directive %Y of strptime: \d\d\d\d
MatchesYear(t) == Len(t) = 4 /\ \A i \in 1..4 : IsDigit(t[i])

\* the directive %m of strptime: 1[0-2]|0[1-9]|[1-9]
MatchesMonth(t) ==
    \/ Len(t) = 2 /\ t[1] = "1" /\ t[2] \in {"0", "1", "2"}
    \/ Len(t) = 2 /\ t[1] = "0" /\ IsDigit(t[2]) /\ t[2] # "0"
    \/ Len(t) = 1 /\ IsDigit(t[1]) /\ t[1] # "0"

\* the directive %d of strptime: 3[0-1]|[1-2]\d|0[1-9]|[1-9]| [1-9]
MatchesDay(t) ==
    \/ Len(t) = 2 /\ t[1] = "3" /\ t[2] \in {"0", "1"}
    \/ Len(t) = 2 /\ t[1] \in {"1", "2"} /\ IsDigit(t[2])
    \/ Len(t) = 2 /\ t[1] \in {"0", " "} /\ IsDigit(t[2]) /\ t[2] # "0"
    \/ Len(t) = 1 /\ IsDigit(t[1]) /\ t[1] # "0"

IsLeapYear(y) == (y % 4 = 0 /\ y % 100 # 0) \/ y % 400 = 0

DaysInMonth(y, m) ==
    IF m = 2 THEN (IF IsLeapYear(y) THEN 29 ELSE 28)
    ELSE IF m \in {4, 6, 9, 11} THEN 30 ELSE 31

\* no date: strptime raised ValueError
NoDate == [ok |-> FALSE, year |-> 0, month |-> 0, day |-> 0]

\* datetime.strptime(text, '%Y-%m-%d') (main.py:81): the text must match
\* the three directives and the hyphens with nothing left over, and the
\* numbers must be a date of the calendar from year 1 on
strptime(text) ==
    LET second == Find(text, 6, <<"-">>) IN
    IF /\ Len(text) >= 8
       /\ MatchesYear(SubSeq(text, 1, 4))
       /\ text[5] = "-"
       /\ second # 0
       /\ MatchesMonth(SubSeq(text, 6, second - 1))
       /\ MatchesDay(SubSeq(text, second + 1, Len(text)))
    THEN LET y == Number(SubSeq(text, 1, 4))
             m == Number(SubSeq(text, 6, second - 1))
             d == Number(StripLeft(SubSeq(text, second + 1, Len(text))))
         IN  IF y >= 1 /\ d <= DaysInMonth(y, m)
             THEN [ok |-> TRUE, year |-> y, month |-> m, day |-> d]
             ELSE NoDate
    ELSE NoDate

\* date_obj.strftime('%Y-%m-%d') (main.py:88)
strftime(date) ==
    Decimal(date.year) \o <<"-">> \o Pad2(date.month) \o <<"-">> \o Pad2(date.day)

\* Python truthiness of an Optional[str]
Truthy(v) == v # None /\ v # Empty

\* Python truthiness of a list
NonEmptyList(l) == Len(l) > 0

----------------------------------------------------------------------------
(* Resolution of the classifier's answer against a vocabulary *)

\* main.py:212  classification.lower() == option.lower()
CaseInsensitiveMatch(answer, option) == Lower(answer) = Lower(option)

\* only the label inside the answer is tried
PartialMatch_Mutant(answer, option) == Contains(Lower(answer), Lower(option))

\* main.py:218  answer inside the label, or the label inside the answer
PartialMatch(answer, option) ==
    \/ Contains(Lower(option), Lower(answer))
    \/ Contains(Lower(answer), Lower(option))

\* an unavailable answer is replaced by the first label
classify_time_record_Mutant(answer, opts) ==
    IF ~Truthy(answer) THEN opts[1]
    ELSE IF InList(answer, opts) THEN answer
    ELSE IF \E i \in DOMAIN opts : CaseInsensitiveMatch(answer, opts[i])
         THEN opts[CHOOSE i \in DOMAIN opts :
                     /\ CaseInsensitiveMatch(answer, opts[i])
                     /\ \A j \in 1..(i - 1) : ~CaseInsensitiveMatch(answer, opts[j])]
    ELSE IF \E i \in DOMAIN opts : PartialMatch(answer, opts[i])
         THEN opts[CHOOSE i \in DOMAIN opts :
                     /\ PartialMatch(answer, opts[i])
                     /\ \A j \in 1..(i - 1) : ~PartialMatch(answer, opts[j])]
    ELSE None

\* main.py:200-223: what classify_time_record returns when
\* openai_client.classify returned `answer`
classify_time_record(answer, opts) ==
    IF ~Truthy(answer) THEN None
    ELSE IF InList(answer, opts) THEN answer
    ELSE IF \E i \in DOMAIN opts : CaseInsensitiveMatch(answer, opts[i])
         THEN opts[CHOOSE i \in DOMAIN opts :
                     /\ CaseInsensitiveMatch(answer, opts[i])
                     /\ \A j \in 1..(i - 1) : ~CaseInsensitiveMatch(answer, opts[j])]
    ELSE IF \E i \in DOMAIN opts : PartialMatch(answer, opts[i])
         THEN opts[CHOOSE i \in DOMAIN opts :
                     /\ PartialMatch(answer, opts[i])
                     /\ \A j \in 1..(i - 1) : ~PartialMatch(answer, opts[j])]
    ELSE None

\* main.py:259  time_type.lower() == option.lower()
TimeTypeCaseInsensitiveMatch(answer, option) == Lower(answer) = Lower(option)

\* the partial match in one direction only
TimeTypePartialMatch_Mutant(answer, option) ==
    Contains(Lower(option), Lower(answer))

\* main.py:265
TimeTypePartialMatch(answer, option) ==
    \/ Contains(Lower(option), Lower(answer))
    \/ Contains(Lower(answer), Lower(option))

\* the routine returning the answer itself on a partial match
determine_time_type_Mutant(answer, opts) ==
    IF ~Truthy(answer) THEN None
    ELSE IF InList(answer, opts) THEN answer
    ELSE IF \E i \in DOMAIN opts : TimeTypeCaseInsensitiveMatch(answer, opts[i])
         THEN opts[CHOOSE i \in DOMAIN opts :
                     /\ TimeTypeCaseInsensitiveMatch(answer, opts[i])
                     /\ \A j \in 1..(i - 1) : ~TimeTypeCaseInsensitiveMatch(answer, opts[j])]
    ELSE IF \E i \in DOMAIN opts : TimeTypePartialMatch(answer, opts[i])
         THEN answer
    ELSE None

\* main.py:247-270: what determine_time_type returns when
\* openai_client.classify returned `answer`
determine_time_type(answer, opts) ==
    IF ~Truthy(answer) THEN None
    ELSE IF InList(answer, opts) THEN answer
    ELSE IF \E i \in DOMAIN opts : TimeTypeCaseInsensitiveMatch(answer, opts[i])
         THEN opts[CHOOSE i \in DOMAIN opts :
                     /\ TimeTypeCaseInsensitiveMatch(answer, opts[i])
                     /\ \A j \in 1..(i - 1) : ~TimeTypeCaseInsensitiveMatch(answer, opts[j])]
    ELSE IF \E i \in DOMAIN opts : TimeTypePartialMatch(answer, opts[i])
         THEN opts[CHOOSE i \in DOMAIN opts :
                     /\ TimeTypePartialMatch(answer, opts[i])
                     /\ \A j \in 1..(i - 1) : ~TimeTypePartialMatch(answer, opts[j])]
    ELSE None

----------------------------------------------------------------------------
(* The record store gateway (notion_client.py) *)

\* notion_client.py:143 / 175: the names of the select options, empty names dropped
OptionNames(opts) == SelectSeq(opts, LAMBDA name : name # Empty)

\* get_classification_options / get_time_type_options: the list returned for
\* a response of the schema endpoint.  A non-200 status and a raised
\* exception both end in `return []`.
OptionsFromSchema(resp) ==
    IF resp.kind = "ok" THEN OptionNames(resp.options) ELSE <<>>

\* the time type property is sent whether or not a value was given
UpdateData_Mutant(c, t) ==
    (IF c # Empty THEN {<<"classification", c>>} ELSE {}) \cup {<<"time_type", t>>}

\* notion_client.py:69-88: the "properties" object of the PATCH body, as a
\* set of <<property, value>> pairs
UpdateData(c, t) ==
    (IF c # Empty THEN {<<"classification", c>>} ELSE {}) \cup
    (IF t # Empty THEN {<<"time_type", t>>} ELSE {})

\* the update without its except clause: a transport error is raised
UpdateReturn_Mutant(resp) ==
    IF resp = "ok" THEN "True" ELSE IF resp = "status" THEN "False" ELSE "raised"

\* notion_client.py:94-104: True on status 200, False on any other status
\* (line 100) and in the except clause (lines 102-104); nothing is raised
UpdateReturn(resp) ==
    IF resp = "ok" THEN "True" ELSE "False"

\* the store's page after it accepted a PATCH with these properties
ApplyPatch(page, props) ==
    [page EXCEPT
        !.classification =
            IF \E p \in props : p[1] = "classification"
            THEN (CHOOSE p \in props : p[1] = "classification")[2] ELSE @,
        !.time_type =
            IF \E p \in props : p[1] = "time_type"
            THEN (CHOOSE p \in props : p[1] = "time_type")[2] ELSE @]

\* the first result page of a query that matches `pages`
FirstPage(pages) ==
    SubSeq(pages, 1, IF Len(pages) < PageSize THEN Len(pages) ELSE PageSize)

\* notion_client.py:45-51: the body of the store's 200 answer to the query
\* sent without a cursor: one result page and the marker that more remain
QueryDatabase(pages) ==
    [results |-> FirstPage(pages), has_more |-> Len(pages) > PageSize]

\* notion_client.py:49-62: data.get('results', []) on status 200, [] on any
\* other status and on an exception; has_more is not read
RecordsFromQuery(resp, pages) ==
    IF resp = "ok" THEN QueryDatabase(pages).results ELSE <<>>

----------------------------------------------------------------------------
(* The engine (main.py) *)

\* main.py:120-124 / 126-130: the select value currently on the page
CurrentSelect(value) == IF Truthy(value) THEN value ELSE None

\* the skip test with the second operand negated
AlreadyClassifiedAndTyped_Mutant(cc, ct) == Truthy(cc) /\ ~Truthy(ct)

\* main.py:133
AlreadyClassifiedAndTyped(cc, ct) == Truthy(cc) /\ Truthy(ct)

\* the test `is None` in place of `not`
NoClassificationOptions_Mutant(opts) == opts = None

\* main.py:93  `if not classification_options`
NoClassificationOptions(opts) == ~NonEmptyList(opts)

\* the time type is asked for whenever there is a vocabulary
NeedsTimeType_Mutant(t, opts) == NonEmptyList(opts)

\* main.py:153  `if not time_type and time_type_options`
NeedsTimeType(t, opts) == ~Truthy(t) /\ NonEmptyList(opts)

\* main.py:159-160  `x if x else ""`
OrEmpty(v) == IF Truthy(v) THEN v ELSE Empty

\* main.py:406  sys.exit(0 if success else 1)
ExitCode(success) == IF success THEN 0 ELSE 1

----------------------------------------------------------------------------
(* Inputs of a run *)

Work == <<"W","o","r","k">>
Study == <<"S","t","u","d","y">>
Deep == <<"D","e","e","p">>
Rest == <<"R","e","s","t">>

\* responses of the schema endpoint for the category field
CategorySchemaResponses ==
    { [kind |-> "ok", options |-> <<Work, Study>>],
      [kind |-> "ok", options |-> <<>>],
      [kind |-> "absent", options |-> <<>>],    \* field missing or not a select
      [kind |-> "status", options |-> <<>>],    \* non-200 status
      [kind |-> "error", options |-> <<>>] }    \* network error raised by aiohttp

\* responses of the schema endpoint for the time type field
TimeTypeSchemaResponses ==
    { [kind |-> "ok", options |-> <<Deep, Rest>>],
      [kind |-> "ok", options |-> <<>>],
      [kind |-> "absent", options |-> <<>>],
      [kind |-> "status", options |-> <<>>],
      [kind |-> "error", options |-> <<>>] }

\* outcomes of the query and of the PATCH request
HttpOutcomes == {"ok", "status", "error"}

\* values OpenAIClient.classify can return: None (timeout, error status, no
\* choices, exception), an empty text, or a cleaned answer
ClassifyReturns ==
    { None, Empty, Work,
      <<"w","o","r","k">>,
      <<"L","e","i","s","u","r","e">>,
      <<"d","e","e","p"," ","w","o","r","k">> }

\* the values of the --date argument: not given, the empty text, dates
\* written as YYYY-MM-DD, dates written otherwise, and texts that are no date
DateArguments ==
    { None, Empty,
      <<"2","0","2","4","-","0","1","-","0","5">>,
      <<"2","0","2","4","-","1","-","5">>,
      <<"2","0","2","4","-","0","1","-"," ","5">>,
      <<"2","0","2","4","-","0","2","-","2","9">>,
      <<"2","0","2","4","-","0","2","-","3","0">>,
      <<"2","0","2","3","-","0","2","-","2","9">>,
      <<"2","0","2","4","-","1","3","-","0","1">>,
      <<"0","5","/","0","1","/","2","0","2","4">>,
      <<"2","0","2","4","-","0","1","-","0","5"," ">> }

\* datetime.now() (main.py:86)
Now == [ok |-> TRUE, year |-> 2024, month |-> 3, day |-> 1]

\* the content property of a page: its type and the plain_text of the
\* elements of its title / rich_text array
Gym == [type |-> "title", texts |-> << <<" ","g","y","m">> >>]
Whitespace == [type |-> "title", texts |-> << <<" "," ">> >>]
EmptyText == [type |-> "rich_text", texts |-> << Empty >>]
NoText == [type |-> "number", texts |-> <<>>]

\* the pages a database of the target date can hold
Pages ==
    { p \in [ classification : {None, Study},
              time_type : {None, Deep},
              content : {Gym, Whitespace, EmptyText, NoText},
              shape : {"page"} ] :
        \* the content of a fully classified page is never read
        /\ (p.classification # None /\ p.time_type # None) => p.content = Gym
        /\ p.content \in {EmptyText, NoText}
              => (p.classification = None /\ p.time_type = None) }
    \cup
    \* a page whose category select object carries no "name" key
    { [classification |-> Study, time_type |-> None,
       content |-> Gym, shape |-> "select_without_name"] }

Stores == UNION { [1..n -> Pages] : n \in 0..MaxEntries }

\* main.py:41-45, 50-55: the settings __init__ requires
RequiredSettings == {"NOTION_TOKEN", "NOTION_DATABASE_ID", "OPENAI_API_KEY"}

\* an environment: the required settings that have a non-empty value
Environments == SUBSET RequiredSettings

\* only the two Notion settings are validated
ConfigurationError_Mutant(e) ==
    "NOTION_TOKEN" \notin e \/ "NOTION_DATABASE_ID" \notin e

\* main.py:50-55: __init__ raises ValueError
ConfigurationError(e) ==
    "NOTION_TOKEN" \notin e \/ "NOTION_DATABASE_ID" \notin e \/ "OPENAI_API_KEY" \notin e

NoProps == {}

\* no chat completions request sent yet
NoRequest == [kind |-> "none", content |-> Empty]

\* no request sent yet
NoResponse == [status |-> "none", results |-> <<>>, has_more |-> FALSE]

\* whether a request was answered with status 200 or failed (another
\* status, or an exception raised by the HTTP client)
Outcome(kind) == IF kind \in {"status", "error"} THEN "failed" ELSE "ok"

\* a gateway call: the operation, the page it is about (0: none), the
\* properties sent (PATCH only) and what came back
Call(op, rid, props, ret) == [op |-> op, rid |-> rid, props |-> props, ret |-> ret]

----------------------------------------------------------------------------
(* One run: main() -> run() -> process_time_records() *)

Init ==
    /\ pc = "main"
    /\ env \in Environments
    /\ target_date \in DateArguments
    /\ date_str = Empty
    /\ database = <<>>
    /\ query_date = "d1"
    /\ response = NoResponse
    /\ fetched = <<>>
    /\ api_response = NoRequest
    /\ classified = None
    /\ store \in Stores
    \* the date is handled before anything is read from the store: the
    \* arguments other than the default are run against the stores of at
    \* most one page
    /\ target_date # None => Len(store) <= 1
    /\ classification_options = <<>>
    /\ time_type_options = <<>>
    /\ records = <<>>
    /\ idx = 0
    /\ classification = None
    /\ time_type = None
    /\ classified_count = 0
    /\ calls = <<>>
    /\ result = FALSE
    /\ exit_code = -1
    /\ raw = None
    /\ options = <<>>
    /\ resolved = None
    /\ resolved_tt = None

\* `return r` from process_time_records, then run() and main(): sys.exit
Return(r) ==
    /\ result' = r
    /\ exit_code' = ExitCode(r)
    /\ pc' = "exited"

\* main.py:403-410 with __init__ (main.py:38-65): a missing setting raises
\* ValueError, main() logs it and exits with 1; the clients are built
\* without any request
Construct ==
    /\ pc = "main"
    /\ IF ConfigurationError(env)
       THEN exit_code' = 1 /\ pc' = "exited"
       ELSE pc' = "start" /\ UNCHANGED exit_code
    /\ UNCHANGED <<env, store, classification_options, time_type_options,
                   records, idx, classification, time_type, classified_count,
                   calls, result, target_date, date_str, sideVars>>

\* main.py:78-89
ParseDate ==
    /\ pc = "start"
    /\ IF Truthy(target_date)
       THEN LET date_obj == strptime(target_date) IN
            IF ~date_obj.ok
            THEN Return(FALSE) /\ UNCHANGED date_str
            ELSE /\ date_str' = strftime(date_obj)
                 /\ pc' = "get_classification_options"
                 /\ UNCHANGED <<result, exit_code>>
       ELSE /\ date_str' = strftime(Now)
            /\ pc' = "get_classification_options"
            /\ UNCHANGED <<result, exit_code>>
    /\ UNCHANGED <<store, classification_options, time_type_options,
                   records, idx, classification, time_type, classified_count,
                   calls, env, target_date, sideVars>>

\* the category vocabulary fetch going on to the entry fetch, without the
\* fetch of the time type vocabulary
GetClassificationOptions_Mutant ==
    /\ pc = "get_classification_options"
    /\ \E resp \in CategorySchemaResponses :
        LET opts == OptionsFromSchema(resp) IN
        /\ classification_options' = opts
        /\ calls' = Append(calls, Call("get_classification_options", 0, NoProps, Outcome(resp.kind)))
        /\ IF NoClassificationOptions(opts)
           THEN Return(FALSE)
           ELSE pc' = "get_time_records" /\ UNCHANGED <<result, exit_code>>
    /\ UNCHANGED <<store, time_type_options, records, idx,
                   classification, time_type, classified_count, env, target_date, date_str, sideVars>>

\* main.py:92-97
GetClassificationOptions ==
    /\ pc = "get_classification_options"
    /\ \E resp \in CategorySchemaResponses :
        LET opts == OptionsFromSchema(resp) IN
        /\ classification_options' = opts
        /\ calls' = Append(calls, Call("get_classification_options", 0, NoProps, Outcome(resp.kind)))
        /\ IF NoClassificationOptions(opts)
           THEN Return(FALSE)
           ELSE pc' = "get_time_type_options" /\ UNCHANGED <<result, exit_code>>
    /\ UNCHANGED <<store, time_type_options, records, idx,
                   classification, time_type, classified_count, env, target_date, date_str, sideVars>>

\* main.py:100-104
GetTimeTypeOptions ==
    /\ pc = "get_time_type_options"
    /\ \E resp \in TimeTypeSchemaResponses :
        /\ time_type_options' = OptionsFromSchema(resp)
        /\ calls' = Append(calls, Call("get_time_type_options", 0, NoProps, Outcome(resp.kind)))
    /\ pc' = "get_time_records"
    /\ UNCHANGED <<store, classification_options, records, idx,
                   classification, time_type, classified_count, result,
                   exit_code, env, target_date, date_str, sideVars>>

\* an empty list of records is reported as a failure
GetTimeRecords_Mutant ==
    /\ pc = "get_time_records"
    /\ \E resp \in HttpOutcomes :
        LET pages == RecordsFromQuery(resp,
                        [i \in DOMAIN store |-> [id |-> i, page |-> store[i]]]) IN
        /\ records' = pages
        /\ calls' = Append(calls, Call("get_time_records", 0, NoProps, Outcome(resp)))
        /\ IF ~NonEmptyList(pages)
           THEN Return(FALSE) /\ UNCHANGED <<idx, classified_count>>
           ELSE /\ pc' = "record"
                /\ idx' = 1
                /\ classified_count' = 0
                /\ UNCHANGED <<result, exit_code>>
    /\ UNCHANGED <<store, classification_options, time_type_options,
                   classification, time_type, env, target_date, date_str, sideVars>>

\* main.py:107-115
GetTimeRecords ==
    /\ pc = "get_time_records"
    /\ \E resp \in HttpOutcomes :
        LET pages == RecordsFromQuery(resp,
                        [i \in DOMAIN store |-> [id |-> i, page |-> store[i]]]) IN
        /\ records' = pages
        /\ calls' = Append(calls, Call("get_time_records", 0, NoProps, Outcome(resp)))
        /\ IF ~NonEmptyList(pages)
           THEN Return(TRUE) /\ UNCHANGED <<idx, classified_count>>
           ELSE /\ pc' = "record"
                /\ idx' = 1
                /\ classified_count' = 0
                /\ UNCHANGED <<result, exit_code>>
    /\ UNCHANGED <<store, classification_options, time_type_options,
                   classification, time_type, env, target_date, date_str, sideVars>>

\* main.py:337-362: the text of the page's content property
get_record_content(page) ==
    LET prop == page.content IN
    IF prop.type = "title" /\ Len(prop.texts) > 0 THEN Strip(prop.texts[1])
    ELSE IF prop.type = "rich_text" /\ Len(prop.texts) > 0 THEN Strip(prop.texts[1])
    ELSE Empty

\* what classify returned, as far as the engine distinguishes it (main.py:200)
Answered(answer) == IF Truthy(answer) THEN "answer" ELSE "nothing"

\* the step after the category has been decided (main.py:151-157)
AfterCategory(t) ==
    IF NeedsTimeType(t, time_type_options) THEN "determine_time_type" ELSE "update"

\* `continue`
NextRecord ==
    /\ idx' = idx + 1
    /\ pc' = "record"

\* the loop head without the test of the content (main.py:140-142 left out)
ExamineRecord_Mutant ==
    /\ pc = "record"
    /\ idx <= Len(records)
    /\ LET page == records[idx].page
           cc == CurrentSelect(page.classification)
           ct == CurrentSelect(page.time_type)
       IN  IF page.shape = "select_without_name"
           THEN \* KeyError at main.py:124, caught at main.py:178
                /\ Return(FALSE)
                /\ UNCHANGED <<idx, classification, time_type>>
           ELSE IF AlreadyClassifiedAndTyped(cc, ct)
           THEN /\ NextRecord
                /\ UNCHANGED <<classification, time_type, result, exit_code>>
           ELSE /\ classification' = cc
                /\ time_type' = ct
                /\ pc' = IF ~Truthy(cc) THEN "classify_time_record"
                         ELSE AfterCategory(ct)
                /\ UNCHANGED <<idx, result, exit_code>>
    /\ UNCHANGED <<store, classification_options, time_type_options,
                   records, classified_count, calls, env, target_date, date_str, sideVars>>

\* main.py:116-147: the head of the loop body, up to the first await
ExamineRecord ==
    /\ pc = "record"
    /\ idx <= Len(records)
    /\ LET page == records[idx].page
           cc == CurrentSelect(page.classification)
           ct == CurrentSelect(page.time_type)
       IN  IF page.shape = "select_without_name"
           THEN \* KeyError at main.py:124, caught at main.py:178
                /\ Return(FALSE)
                /\ UNCHANGED <<idx, classification, time_type>>
           ELSE IF AlreadyClassifiedAndTyped(cc, ct)
                   \/ BlankAfterStrip(get_record_content(page))
           THEN /\ NextRecord
                /\ UNCHANGED <<classification, time_type, result, exit_code>>
           ELSE /\ classification' = cc
                /\ time_type' = ct
                /\ pc' = IF ~Truthy(cc) THEN "classify_time_record"
                         ELSE AfterCategory(ct)
                /\ UNCHANGED <<idx, result, exit_code>>
    /\ UNCHANGED <<store, classification_options, time_type_options,
                   records, classified_count, calls, env, target_date, date_str, sideVars>>

\* main.py:149 with classify_time_record (main.py:193-227)
ClassifyTimeRecord ==
    /\ pc = "classify_time_record"
    /\ \E answer \in ClassifyReturns :
        /\ classification' = classify_time_record(answer, classification_options)
        /\ calls' = Append(calls, Call("classify_time_record", records[idx].id,
                                       NoProps, Answered(answer)))
    /\ pc' = AfterCategory(time_type)
    /\ UNCHANGED <<store, classification_options, time_type_options,
                   records, idx, time_type, classified_count, result, exit_code,
                   env, target_date, date_str, sideVars>>

\* main.py:154 with determine_time_type (main.py:240-274)
DetermineTimeType ==
    /\ pc = "determine_time_type"
    /\ \E answer \in ClassifyReturns :
        /\ time_type' = determine_time_type(answer, time_type_options)
        /\ calls' = Append(calls, Call("determine_time_type", records[idx].id,
                                       NoProps, Answered(answer)))
    /\ pc' = "update"
    /\ UNCHANGED <<store, classification_options, time_type_options,
                   records, idx, classification, classified_count, result,
                   exit_code, env, target_date, date_str, sideVars>>

\* main.py:157-173 with update_record_classification_and_type
\* (notion_client.py:64-104)
UpdateRecord ==
    /\ pc = "update"
    /\ \E resp \in HttpOutcomes :
        LET rid == records[idx].id
            props == UpdateData(OrEmpty(classification), OrEmpty(time_type))
            success == UpdateReturn(resp)
        IN  /\ store' = IF resp = "ok"
                        THEN [store EXCEPT ![rid] = ApplyPatch(@, props)]
                        ELSE store
            /\ calls' = Append(calls, Call("update", rid, props, Outcome(resp)))
            /\ IF success = "raised"
               THEN \* main.py:178-180
                    Return(FALSE) /\ UNCHANGED <<idx, classified_count>>
               ELSE /\ classified_count' = IF success = "True"
                                           THEN classified_count + 1
                                           ELSE classified_count
                    /\ NextRecord
                    /\ UNCHANGED <<result, exit_code>>
    /\ UNCHANGED <<classification_options, time_type_options,
                   records, classification, time_type, env, target_date, date_str, sideVars>>

\* the end of the loop without the return
Finish_Mutant ==
    /\ pc = "record"
    /\ idx > Len(records)
    /\ UNCHANGED vars

\* main.py:175-176
Finish ==
    /\ pc = "record"
    /\ idx > Len(records)
    /\ Return(TRUE)
    /\ UNCHANGED <<store, classification_options, time_type_options,
                   records, idx, classification, time_type, classified_count,
                   calls, env, target_date, date_str, sideVars>>

Next ==
    \/ Construct
    \/ ParseDate
    \/ GetClassificationOptions
    \/ GetTimeTypeOptions
    \/ GetTimeRecords
    \/ ExamineRecord
    \/ ClassifyTimeRecord
    \/ DetermineTimeType
    \/ UpdateRecord
    \/ Finish

Spec == Init /\ [][Next]_vars

\* the run under the event loop: asyncio.run (main.py:413-414) drives the one
\* coroutine, and every awaited gateway call returns (its answer, a failure
\* or the timeout), so a step that can be taken is taken
SpecLive == Spec /\ WF_vars(Next)

----------------------------------------------------------------------------
(* The resolution routines on their own: every answer against every        *)
(* vocabulary within the bounds, and the examples of the specification     *)

MatchAlphabet == {"a", "A", "b"}

TextsUpTo(n) == UNION { [1..k -> MatchAlphabet] : k \in 1..n }

RECURSIVE TotalLen(_)
TotalLen(v) == IF v = <<>> THEN 0 ELSE Len(Head(v)) + TotalLen(Tail(v))

\* a vocabulary: labels are non-empty (notion_client.py:143) and unique
Vocabularies ==
    { v \in UNION { [1..k -> TextsUpTo(MaxLen)] : k \in 0..MaxVocab } :
        /\ \A i, j \in DOMAIN v : i # j => v[i] # v[j]
        /\ TotalLen(v) <= MaxVocabChars }

ThinkWork == <<"I"," ","t","h","i","n","k"," ","W","o","r","k"," ",
               "i","s"," ","c","o","r","r","e","c","t">>

Leisure == <<"L","e","i","s","u","r","e">>

ExampleInputs ==
    { <<a, <<Work, Study>>>> : a \in {<<"w","o","r","k">>, ThinkWork, Leisure, Study} }

InitMatch ==
    /\ pc = "resolve"
    /\ \E input \in (({None, Empty} \cup TextsUpTo(MaxLen)) \X Vocabularies)
                      \cup ExampleInputs :
        /\ raw = input[1]
        /\ options = input[2]
    /\ resolved = None
    /\ resolved_tt = None
    /\ env = RequiredSettings
    /\ target_date = None
    /\ date_str = Empty
    /\ database = <<>>
    /\ query_date = "d1"
    /\ response = NoResponse
    /\ fetched = <<>>
    /\ api_response = NoRequest
    /\ classified = None
    /\ store = <<>>
    /\ classification_options = <<>>
    /\ time_type_options = <<>>
    /\ records = <<>>
    /\ idx = 0
    /\ classification = None
    /\ time_type = None
    /\ classified_count = 0
    /\ calls = <<>>
    /\ result = FALSE
    /\ exit_code = -1

\* classify_time_record after openai_client.classify returned raw
ResolveCategory ==
    /\ pc = "resolve"
    /\ resolved' = classify_time_record(raw, options)
    /\ pc' = "resolve_time_type"
    /\ UNCHANGED <<raw, options, resolved_tt, runVars, fetchVars, classifyVars>>

\* determine_time_type after openai_client.classify returned raw
ResolveTimeType ==
    /\ pc = "resolve_time_type"
    /\ resolved_tt' = determine_time_type(raw, options)
    /\ pc' = "resolved"
    /\ UNCHANGED <<raw, options, resolved, runVars, fetchVars, classifyVars>>

NextMatch == ResolveCategory \/ ResolveTimeType

SpecMatch == InitMatch /\ [][NextMatch]_vars

----------------------------------------------------------------------------
(* NotionClient.get_time_records against a database of dated pages *)

\* values of the date property of a page
Dates == {"d1", "d2", "d3"}

\* the databases: a page is its id and its date
Databases ==
    UNION { [1..n -> Dates] : n \in 0..MaxDbPages }

\* notion_client.py:35-42: the pages the filter selects, in database order
Matching(db, date) ==
    LET all == [i \in DOMAIN db |-> [id |-> i, date |-> db[i]]]
        Equals(p) == p.date = date
    IN  SelectSeq(all, Equals)

InitFetch ==
    /\ pc = "fetch"
    /\ database \in Databases
    /\ query_date \in Dates
    /\ response = NoResponse
    /\ fetched = <<>>
    /\ api_response = NoRequest
    /\ classified = None
    /\ raw = None
    /\ options = <<>>
    /\ resolved = None
    /\ resolved_tt = None
    /\ env = RequiredSettings
    /\ target_date = None
    /\ date_str = Empty
    /\ store = <<>>
    /\ classification_options = <<>>
    /\ time_type_options = <<>>
    /\ records = <<>>
    /\ idx = 0
    /\ classification = None
    /\ time_type = None
    /\ classified_count = 0
    /\ calls = <<>>
    /\ result = FALSE
    /\ exit_code = -1

\* notion_client.py:29-62
get_time_records ==
    /\ pc = "fetch"
    /\ \E resp \in HttpOutcomes :
        LET matching == Matching(database, query_date) IN
        /\ response' = IF resp = "ok"
                        THEN [status |-> "ok",
                              results |-> QueryDatabase(matching).results,
                              has_more |-> QueryDatabase(matching).has_more]
                        ELSE [status |-> resp, results |-> <<>>, has_more |-> FALSE]
        /\ fetched' = RecordsFromQuery(resp, matching)
    /\ pc' = "fetched"
    /\ UNCHANGED <<database, query_date, runVars, matchVars, classifyVars>>

NextFetch == get_time_records

SpecFetch == InitFetch /\ [][NextFetch]_vars

----------------------------------------------------------------------------
(* OpenAIClient (openai_client.py) *)

\* openai_client.py:51: a cleaned answer longer than this is searched for
\* its last short line
LongAnswerLen == 50

\* openai_client.py:56: a line is short when its length is below this
ShortLineLen == 20

ThinkOpen == <<"<","t","h","i","n","k",">">>

ThinkClose == <<"<","/","t","h","i","n","k",">">>

\* openai_client.py:51
ExplanationWords ==
    << <<"s","t","e","p">>, <<"a","n","a","l","y","z","e">>, <<"b","r","e","a","k">>,
       <<"c","l","a","s","s","i","f","y">>, <<"c","a","t","e","g","o","r","y">> >>

\* openai_client.py:56
LineWords ==
    << <<"s","t","e","p">>, <<"a","n","a","l","y","z","e">>, <<"b","r","e","a","k">> >>

\* any(word in text.lower() for word in words)
ContainsAny(text, words) ==
    \E w \in DOMAIN words : Contains(Lower(text), words[w])

\* openai_client.py:43: re.sub(r'<think>.*?</think>', '', s, flags=re.DOTALL):
\* every leftmost, shortest stretch from an opening to the next closing tag
\* is removed; an opening tag with no closing tag after it stays
RECURSIVE RemoveThink(_)
RemoveThink(s) ==
    LET open == Find(s, 1, ThinkOpen) IN
    IF open = 0 THEN s
    ELSE LET close == Find(s, open + Len(ThinkOpen), ThinkClose) IN
         IF close = 0 THEN s
         ELSE SubSeq(s, 1, open - 1) \o
              RemoveThink(SubSeq(s, close + Len(ThinkClose), Len(s)))

\* the positions where r'<[^>]+>' matches: a "<", at least one character
\* other than ">", then ">"
TagStarts(s) ==
    { i \in 1..Len(s) :
        /\ s[i] = "<"
        /\ i + 1 <= Len(s) /\ s[i + 1] # ">"
        /\ \E k \in (i + 2)..Len(s) : s[k] = ">" }

\* openai_client.py:47: re.sub(r'<[^>]+>', '', s)
RECURSIVE RemoveTags(_)
RemoveTags(s) ==
    IF TagStarts(s) = {} THEN s
    ELSE LET i == CHOOSE m \in TagStarts(s) : \A n \in TagStarts(s) : m <= n
             j == Find(s, i + 2, <<">">>)
         IN  SubSeq(s, 1, i - 1) \o RemoveTags(SubSeq(s, j + 1, Len(s)))

\* openai_client.py:53-58: the last line that, stripped, is not empty, is
\* short and holds no explanation word; the text itself if there is none
LastShortLine(cleaned) ==
    LET lines == SplitLines(cleaned)
        good == { i \in DOMAIN lines :
                    /\ Strip(lines[i]) # Empty
                    /\ Len(Strip(lines[i])) < ShortLineLen
                    /\ ~ContainsAny(Strip(lines[i]), LineWords) }
    IN  IF good = {} THEN cleaned
        ELSE Strip(lines[CHOOSE m \in good : \A n \in good : n <= m])

\* openai_client.py:34-60: _clean_response
clean_response(text) ==
    LET stripped == Strip(text)
        unthought == IF Contains(stripped, ThinkOpen)
                     THEN Strip(RemoveThink(stripped))
                     ELSE stripped
        untagged == Strip(RemoveTags(unthought))
    IN  IF Len(untagged) > LongAnswerLen \/ ContainsAny(untagged, ExplanationWords)
        THEN LastShortLine(untagged)
        ELSE untagged

\* what a chat completions request can meet: the 30 s timeout, another
\* exception, a status other than 200, a 200 body without choices, a
\* choice whose content is null, or a choice with a text content
ResponseKinds ==
    {"timeout", "error", "status", "no_choices", "null_content", "content"}

\* openai_client.py:99-130: the value classify returns
classify(resp) ==
    IF resp.kind = "timeout" THEN None                \* lines 125-127
    ELSE IF resp.kind = "error" THEN None             \* lines 128-130
    ELSE IF resp.kind = "status" THEN None            \* lines 119-122
    ELSE IF resp.kind = "no_choices" THEN None        \* lines 115-117
    ELSE IF resp.kind = "null_content" THEN None      \* None.strip() raises: lines 128-130
    ELSE clean_response(Strip(resp.content))          \* lines 108-114

\* the pieces the content of a response is made of
LongLine == [i \in 1..(LongAnswerLen + 1) |-> "x"]

MidLine == [i \in 1..ShortLineLen |-> "y"]

Pieces ==
    { ThinkOpen, ThinkClose, <<"<","b",">">>, <<"<">>, <<">">>,
      <<"W","o","r","k">>, <<"\n">>, <<" ">>, <<"S","t","e","p">>,
      LongLine, MidLine }

RECURSIVE Flatten(_)
Flatten(ps) == IF ps = <<>> THEN <<>> ELSE Head(ps) \o Flatten(Tail(ps))

Contents ==
    UNION { { Flatten(ps) : ps \in [1..n -> Pieces] } : n \in 0..MaxPieces }

ApiResponses ==
    { [kind |-> k, content |-> Empty] : k \in ResponseKinds \ {"content"} }
    \cup { [kind |-> "content", content |-> c] : c \in Contents }

InitClassify ==
    /\ pc = "classify"
    /\ api_response \in ApiResponses
    /\ classified = None
    /\ database = <<>>
    /\ query_date = "d1"
    /\ response = NoResponse
    /\ fetched = <<>>
    /\ raw = None
    /\ options = <<>>
    /\ resolved = None
    /\ resolved_tt = None
    /\ env = RequiredSettings
    /\ target_date = None
    /\ date_str = Empty
    /\ store = <<>>
    /\ classification_options = <<>>
    /\ time_type_options = <<>>
    /\ records = <<>>
    /\ idx = 0
    /\ classification = None
    /\ time_type = None
    /\ classified_count = 0
    /\ calls = <<>>
    /\ result = FALSE
    /\ exit_code = -1

\* openai_client.py:62-130
OpenAIClassify ==
    /\ pc = "classify"
    /\ classified' = classify(api_response)
    /\ pc' = "classified"
    /\ UNCHANGED <<api_response, runVars, matchVars, fetchVars>>

NextClassify == OpenAIClassify

SpecClassify == InitClassify /\ [][NextClassify]_vars

----------------------------------------------------------------------------
(* Vocabulary of the properties *)

\* the page as process_time_records fetched it (a page's id is its position)
Fetched(rid) == records[rid].page

BothSet(page) == Truthy(page.classification) /\ Truthy(page.time_type)

BothUnset(page) == ~Truthy(page.classification) /\ ~Truthy(page.time_type)

UpdateCalls == { k \in DOMAIN calls : calls[k].op = "update" }

ClassifierCalls ==
    { k \in DOMAIN calls : calls[k].op \in {"classify_time_record", "determine_time_type"} }

PropNames(props) == { p[1] : p \in props }

LastCall == calls[Len(calls)]

----------------------------------------------------------------------------
(* C1 *)

\* C1: a fetched entry whose category and time type are both set gets no
\* classifier call and no update call, and the store keeps its values.
C1_IdempotentSkip ==
    \A i \in DOMAIN records :
        (Fetched(i).shape = "page" /\ BothSet(Fetched(i))) =>
            /\ \A k \in DOMAIN calls : calls[k].rid # records[i].id
            /\ store[records[i].id] = Fetched(i)

\* a finished run that skipped a fully classified first entry and updated the second
C1_Witness ==
    /\ pc = "exited"
    /\ result
    /\ Len(records) = 2
    /\ BothSet(Fetched(1))
    /\ \E k \in UpdateCalls : calls[k].rid = 2 /\ calls[k].ret = "ok"

----------------------------------------------------------------------------
(* C2 *)

\* C2: the update issued for an entry fetched with exactly one of category /
\* time type set carries only the attribute that was unset.
C2_OnlyUnsetAttributeWritten ==
    \A k \in UpdateCalls :
        LET page == Fetched(calls[k].rid) IN
        /\ (Truthy(page.classification) /\ ~Truthy(page.time_type))
              => "classification" \notin PropNames(calls[k].props)
        /\ (~Truthy(page.classification) /\ Truthy(page.time_type))
              => "time_type" \notin PropNames(calls[k].props)

----------------------------------------------------------------------------
(* C3 *)

\* C3: no update call is issued for an entry for which neither attribute was
\* resolved in this run: every update carries at least one attribute that
\* was unset when the entry was fetched.
C3_NoEmptyWrite ==
    \A k \in UpdateCalls :
        LET page == Fetched(calls[k].rid) IN
        \/ (~Truthy(page.classification)
              /\ "classification" \in PropNames(calls[k].props))
        \/ (~Truthy(page.time_type)
              /\ "time_type" \in PropNames(calls[k].props))

----------------------------------------------------------------------------
(* C4 *)

\* C4: the update of an entry fetched with both attributes unset sends
\* exactly the attributes that resolved: with only the category resolved the
\* properties hold the category and no time type property, and symmetrically;
\* no property is ever sent with an empty value.
C4_PartialUpdate ==
    [][ (pc = "update" /\ pc' = "record" /\ BothUnset(Fetched(records[idx].id))) =>
          LET props == calls'[Len(calls')].props IN
          /\ (Truthy(classification) /\ ~Truthy(time_type))
                => props = {<<"classification", classification>>}
          /\ (~Truthy(classification) /\ Truthy(time_type))
                => props = {<<"time_type", time_type>>}
          /\ \A p \in props : Truthy(p[2])
      ]_vars

\* the time type was asked for and did not resolve; the update just sent for
\* that entry holds the category alone
C4_Witness ==
    /\ Len(calls) >= 2
    /\ LastCall.op = "update"
    /\ BothUnset(Fetched(LastCall.rid))
    /\ calls[Len(calls) - 1].op = "determine_time_type"
    /\ calls[Len(calls) - 1].rid = LastCall.rid
    /\ LastCall.props = {<<"classification", Work>>}

----------------------------------------------------------------------------
(* C5 *)

\* C5: when get_classification_options returned an empty list the run has
\* returned False, and the schema request is the only gateway call made.
C5_AbortOnEmptyCategoryVocabulary ==
    (Len(calls) >= 1 /\ classification_options = <<>>) =>
        /\ pc = "exited"
        /\ result = FALSE
        /\ Len(calls) = 1
        /\ calls[1].op = "get_classification_options"

\* the schema request succeeded and the category field has no option
C5_Witness ==
    /\ pc = "exited"
    /\ calls = <<Call("get_classification_options", 0, NoProps, "ok")>>
    /\ classification_options = <<>>
    /\ Len(store) > 0

----------------------------------------------------------------------------
(* C6 *)

SameIgnoringCase(s, t) ==
    Len(s) = Len(t) /\ \A i \in 1..Len(s) : LowerChar(s[i]) = LowerChar(t[i])

\* s occurs in t as a contiguous piece, character for character
OccursIn(s, t) ==
    \E from \in 1..(Len(t) - Len(s) + 1) : SubSeq(t, from, from + Len(s) - 1) = s

\* s occurs in t when the case of letters is disregarded
OccursInIgnoringCase(s, t) ==
    \E from \in 1..(Len(t) - Len(s) + 1) :
        SameIgnoringCase(SubSeq(t, from, from + Len(s) - 1), s)

Least(S) == CHOOSE i \in S : \A j \in S : i <= j

ExactLabels(a, v) == { i \in DOMAIN v : v[i] = a }

CaseLabels(a, v) == { i \in DOMAIN v : SameIgnoringCase(a, v[i]) }

SubstringLabels(a, v) == { i \in DOMAIN v : OccursIn(v[i], a) \/ OccursIn(a, v[i]) }

SubstringLabelsIgnoringCase(a, v) ==
    { i \in DOMAIN v : OccursInIgnoringCase(v[i], a) \/ OccursInIgnoringCase(a, v[i]) }

\* the three tiers as the claim words them: containment character for character
TiersAsClaimed(a, v) ==
    IF ExactLabels(a, v) # {} THEN a
    ELSE IF CaseLabels(a, v) # {} THEN v[Least(CaseLabels(a, v))]
    ELSE IF SubstringLabels(a, v) # {} THEN v[Least(SubstringLabels(a, v))]
    ELSE None

\* the three tiers with containment ignoring case
TiersIgnoringCase(a, v) ==
    IF ExactLabels(a, v) # {} THEN a
    ELSE IF CaseLabels(a, v) # {} THEN v[Least(CaseLabels(a, v))]
    ELSE IF SubstringLabelsIgnoringCase(a, v) # {}
         THEN v[Least(SubstringLabelsIgnoringCase(a, v))]
    ELSE None

CategoryResolved == pc \in {"resolve_time_type", "resolved"}

TimeTypeResolved == pc = "resolved"

\* C6 (as claimed): a non-empty answer resolves to itself on an exact match,
\* else to the first label equal ignoring case, else to the first label that
\* the answer contains or that contains the answer, else to None.
C6_MatchTiersAsClaimed ==
    Truthy(raw) =>
        /\ CategoryResolved => resolved = TiersAsClaimed(raw, options)
        /\ TimeTypeResolved => resolved_tt = TiersAsClaimed(raw, options)

\* C6 (amended): as above, with the containment of tier 3 taken ignoring
\* case.  With [Work, Study]: "work" gives Work, "I think Work is correct"
\* gives Work, "Leisure" gives None; an exact match on a later label wins
\* over a substring match on an earlier one.
C6_MatchTiers ==
    Truthy(raw) =>
        /\ CategoryResolved => resolved = TiersIgnoringCase(raw, options)
        /\ TimeTypeResolved => resolved_tt = TiersIgnoringCase(raw, options)
        /\ (CategoryResolved /\ options = <<Work, Study>>) =>
              /\ raw = <<"w","o","r","k">> => resolved = Work
              /\ raw = ThinkWork => resolved = Work
              /\ raw = Leisure => resolved = None
              /\ raw = Study => resolved = Study

\* tier 3 decided between two labels: neither equals the answer even
\* ignoring case, both match it by containment once case is ignored (the
\* first of them only then), and the first wins
C6_Witness ==
    /\ pc = "resolved"
    /\ Truthy(raw)
    /\ Len(options) = 2
    /\ CaseLabels(raw, options) = {}
    /\ SubstringLabels(raw, options) = {2}
    /\ SubstringLabelsIgnoringCase(raw, options) = {1, 2}
    /\ resolved = options[1]
    /\ resolved_tt = options[1]

----------------------------------------------------------------------------
(* C7 *)

\* C7: an exception raised while one entry is processed stays with that
\* entry: a run that fetched entries ends only after the loop has passed
\* every one of them, and it ends with success.
C7_PerEntryFailureIsolation ==
    (pc = "exited" /\ NonEmptyList(records)) =>
        /\ idx > Len(records)
        /\ result = TRUE

----------------------------------------------------------------------------
(* C8 *)

\* C8: a failed query for the entries of the target date ends the run with
\* failure: process_time_records returns False and the exit code is 1.
C8_EntryFetchFailureIsFatal ==
    (pc = "exited"
        /\ \E k \in DOMAIN calls :
              calls[k].op = "get_time_records" /\ calls[k].ret = "failed")
    => (result = FALSE /\ exit_code = 1)

----------------------------------------------------------------------------
(* C9 *)

\* C9: once a schema request for either vocabulary has failed, the run has
\* ended with failure and nothing was requested after the failed call.
C9_VocabularyFetchFailureIsFatal ==
    \A k \in DOMAIN calls :
        (calls[k].op \in {"get_classification_options", "get_time_type_options"}
            /\ calls[k].ret = "failed")
        => (pc = "exited" /\ result = FALSE /\ exit_code = 1 /\ Len(calls) = k)

----------------------------------------------------------------------------
(* C10 *)

\* the attribute a classifier call is about
AttributeOf(op) == IF op = "classify_time_record" THEN "classification" ELSE "time_type"

Unavailable == { k \in ClassifierCalls : calls[k].ret = "nothing" }

\* C10: when the classifier returned nothing for an attribute of an entry,
\* (1) no update of that entry carries the attribute and the store keeps it
\* unset, (2) the other attribute is still asked for: the time type call
\* follows an unavailable category call whenever the entry lacks a time type
\* and the time type vocabulary is not empty, and the category call has
\* preceded an unavailable time type call whenever the entry lacked a
\* category, (3) the entry is then updated and the loop moves past it: the
\* run never ends at that entry.
C10_ClassifierUnavailableIsolated ==
    \A k \in Unavailable :
        LET rid == calls[k].rid
            attr == AttributeOf(calls[k].op)
            page == Fetched(rid)
        IN
        /\ \A u \in UpdateCalls :
              calls[u].rid = rid => attr \notin PropNames(calls[u].props)
        /\ store[rid][attr] = None
        /\ (calls[k].op = "classify_time_record"
              /\ NeedsTimeType(page.time_type, time_type_options)) =>
                IF k = Len(calls)
                THEN pc = "determine_time_type" /\ idx = rid
                ELSE calls[k + 1].op = "determine_time_type" /\ calls[k + 1].rid = rid
        /\ (calls[k].op = "determine_time_type" /\ ~Truthy(page.classification)) =>
                calls[k - 1].op = "classify_time_record" /\ calls[k - 1].rid = rid
        /\ IF \E u \in UpdateCalls : calls[u].rid = rid
           THEN idx > rid
           ELSE idx = rid /\ pc \in {"determine_time_type", "update"}

\* the category call of the first entry returned nothing, its time type was
\* still resolved and written alone, and the second entry was classified
C10_Witness ==
    /\ Len(records) = 2
    /\ \E k \in Unavailable :
          /\ calls[k].op = "classify_time_record"
          /\ calls[k].rid = 1
          /\ k < Len(calls)
          /\ calls[k + 1].op = "determine_time_type"
    /\ \E u \in UpdateCalls :
          calls[u].rid = 1 /\ calls[u].props = {<<"time_type", Deep>>}
    /\ \E u \in UpdateCalls :
          calls[u].rid = 2 /\ "classification" \in PropNames(calls[u].props)
    /\ pc = "exited"

----------------------------------------------------------------------------
(* C11 *)

\* the content text of a fetched page: empty, only whitespace, or none at all
BlankContent(page) ==
    \/ page.content.type \notin {"title", "rich_text"}
    \/ page.content.texts = <<>>
    \/ \A i \in DOMAIN page.content.texts[1] : page.content.texts[1][i] \in {" ", "\t", "\n"}

UpdatedEntries == { calls[k].rid : k \in { u \in UpdateCalls : calls[u].ret = "ok" } }

\* C11: an entry that is not fully classified and whose content is empty,
\* only whitespace or not extractable gets no classifier call and no update
\* call, is not counted, and the run does not end at it: the loop moves on
\* and the count stays within the entries that were updated.
C11_BlankContentSkip ==
    \A i \in DOMAIN records :
        (Fetched(i).shape = "page" /\ ~BothSet(Fetched(i)) /\ BlankContent(Fetched(i))) =>
            /\ \A k \in DOMAIN calls : calls[k].rid # records[i].id
            /\ store[records[i].id] = Fetched(i)
            /\ records[i].id \notin UpdatedEntries
            /\ classified_count <= Cardinality({ j \in DOMAIN records : j # i /\ j < idx })
            /\ (pc = "exited" => idx # i)

\* a run that passed a whitespace-only entry lacking a time type and then
\* updated the entry after it, and returned True
C11_Witness ==
    /\ pc = "exited"
    /\ result
    /\ Len(records) = 2
    /\ Fetched(1).content = Whitespace
    /\ Fetched(1).classification = Study
    /\ 2 \in UpdatedEntries
    /\ classified_count = 1

----------------------------------------------------------------------------
(* C12 *)

ExactlyOneSet(page) ==
    page.shape = "page" /\ (Truthy(page.classification) # Truthy(page.time_type))

\* the attribute a half-classified page lacks
MissingAttribute(page) ==
    IF Truthy(page.classification) THEN "time_type" ELSE "classification"

\* the vocabulary loaded for an attribute
VocabularyOf(attr) ==
    IF attr = "classification" THEN classification_options ELSE time_type_options

\* what holds of every fetched entry with exactly one attribute set
C12_State ==
    \A i \in DOMAIN records :
        ExactlyOneSet(Fetched(i)) =>
            LET missing == MissingAttribute(Fetched(i)) IN
            \* the classifier is never asked for the attribute already set
            /\ \A k \in ClassifierCalls :
                  calls[k].rid = i => AttributeOf(calls[k].op) = missing
            \* once the loop is past it, an entry with content was updated,
            \* and the classifier was asked for the missing attribute
            /\ (idx > i /\ ~BlankContent(Fetched(i))) =>
                  /\ \E u \in UpdateCalls : calls[u].rid = i
                  /\ NonEmptyList(VocabularyOf(missing)) =>
                        \E k \in ClassifierCalls :
                            calls[k].rid = i /\ AttributeOf(calls[k].op) = missing

\* C12: an entry with exactly one of category / time type set is not
\* skipped (given it has content): the classifier is asked for the missing
\* attribute and never for the one already set, and the update that is sent
\* holds the missing attribute with the label it resolved to.
C12_AsymmetricPartialCompletion ==
    [][ /\ C12_State'
        /\ (pc = "update" /\ pc' = "record" /\ ExactlyOneSet(Fetched(idx))) =>
              LET missing == MissingAttribute(Fetched(idx))
                  label == IF missing = "classification" THEN classification
                           ELSE time_type
              IN  Truthy(label) => <<missing, label>> \in calls'[Len(calls')].props
      ]_vars

\* the time type of an entry that had only its category was resolved and
\* sent, after one classifier call, for the time type
C12_Witness ==
    /\ Len(calls) >= 5
    /\ LastCall.op = "update"
    /\ Fetched(LastCall.rid).classification = Study
    /\ Fetched(LastCall.rid).time_type = None
    /\ <<"time_type", Deep>> \in LastCall.props
    /\ calls[Len(calls) - 1].op = "determine_time_type"
    /\ calls[Len(calls) - 2].rid # LastCall.rid

----------------------------------------------------------------------------
(* C13 *)

\* the time type vocabulary was requested and the list that came back is empty
EmptyTimeTypeVocabulary ==
    /\ \E k \in DOMAIN calls : calls[k].op = "get_time_type_options"
    /\ time_type_options = <<>>

\* C13: with a category vocabulary and an empty time type vocabulary the run
\* goes on to the entries, the classifier is never asked for a time type, no
\* update carries a time type, and an entry with content that lacks a
\* category has had its category call and its update once the loop is past it.
C13_EmptyTimeTypeVocabularyTolerated ==
    EmptyTimeTypeVocabulary =>
        /\ Len(calls) = 2 => pc = "get_time_records"
        /\ \A k \in DOMAIN calls : calls[k].op # "determine_time_type"
        /\ \A u \in UpdateCalls : "time_type" \notin PropNames(calls[u].props)
        /\ \A i \in DOMAIN records :
              (Fetched(i).shape = "page" /\ ~Truthy(Fetched(i).classification)
                  /\ ~BlankContent(Fetched(i)) /\ idx > i) =>
                 /\ \E k \in DOMAIN calls :
                       calls[k].op = "classify_time_record" /\ calls[k].rid = i
                 /\ \E u \in UpdateCalls : calls[u].rid = i

----------------------------------------------------------------------------
(* C14 *)

\* C14: when get_time_records returned no entry the run has returned True
\* (exit code 0), no entry was processed or counted, and the three setup
\* requests are the only gateway calls: no classifier call, no update.
C14_EmptyDayNoOp ==
    (records = <<>> /\ \E k \in DOMAIN calls : calls[k].op = "get_time_records") =>
        /\ pc = "exited"
        /\ result = TRUE
        /\ exit_code = 0
        /\ classified_count = 0
        /\ Len(calls) = 3
        /\ ClassifierCalls = {}
        /\ UpdateCalls = {}

\* the query succeeded on a database without a page for the date
C14_Witness ==
    /\ pc = "exited"
    /\ store = <<>>
    /\ Len(calls) = 3
    /\ LastCall.op = "get_time_records"
    /\ LastCall.ret = "ok"
    /\ result

----------------------------------------------------------------------------
(* C15 *)

\* both vocabularies and the entry list were obtained
SetupPassed ==
    /\ NonEmptyList(classification_options)
    /\ \E k \in DOMAIN calls : calls[k].op = "get_time_records"

\* C15: once the setup has passed, the run returns True whatever happened
\* to the entries, and an update that returned false does not stop the
\* loop: it moves on to the next entry.
C15_OutcomeReflectsOnlySetup ==
    SetupPassed =>
        /\ pc = "exited" => (result = TRUE /\ exit_code = 0)
        /\ \A u \in UpdateCalls : calls[u].ret = "failed" =>
              /\ idx > calls[u].rid
              /\ (u = Len(calls) /\ pc # "exited") => pc = "record"

----------------------------------------------------------------------------
(* C16 *)

\* entries for which an update was accepted that carried at least one attribute
EntriesWritten ==
    { calls[u].rid : u \in { k \in UpdateCalls :
                               calls[k].ret = "ok" /\ calls[k].props # {} } }

\* C16: the count reported at the end of the run is the number of entries
\* for which an update succeeded with at least one attribute written.
C16_UpdatedEntryCount ==
    (pc = "exited" /\ NonEmptyList(records)) =>
        classified_count = Cardinality(EntriesWritten)

----------------------------------------------------------------------------
(* C17 *)

\* C17: with a required setting missing the program exits with code 1
\* without a single gateway call; with all of them set the exit code is 0
\* exactly when process_time_records returned True, and 1 when it returned
\* False.
C17_ConfigurationAndExitCodes ==
    /\ (env # RequiredSettings /\ pc # "main") =>
          (pc = "exited" /\ exit_code = 1 /\ calls = <<>>)
    /\ (env = RequiredSettings /\ pc = "exited") =>
          /\ result = TRUE => exit_code = 0
          /\ result = FALSE => exit_code = 1
    /\ pc # "exited" => exit_code = -1

\* only the model API key is missing and the program has exited
C17_Witness ==
    /\ env = {"NOTION_TOKEN", "NOTION_DATABASE_ID"}
    /\ pc = "exited"
    /\ exit_code = 1
    /\ Len(store) > 0

----------------------------------------------------------------------------
(* C18 *)

\* C18: a query the store answers with status 200 makes get_time_records
\* return all pages of the database whose date equals the target date, also
\* when the store's answer says that more results remain.
C18_CompleteEntryFetch ==
    (pc = "fetched" /\ response.status = "ok") =>
        fetched = Matching(database, query_date)

----------------------------------------------------------------------------
(* C19 *)

\* C19: the update call returns true exactly when the store accepted the
\* update and false, without raising, on a non-success status and on a
\* transport error: the entry is counted exactly when the store accepted
\* the update, a refused update leaves the store as it was, and in every
\* case the loop goes on to the next entry.
C19_PersistNeverRaises ==
    [][pc = "update" =>
        /\ pc' = "record" /\ idx' = idx + 1
        /\ calls'[Len(calls')].op = "update"
        /\ calls'[Len(calls')].ret = "ok" =>
              /\ classified_count' = classified_count + 1
              /\ store' = [store EXCEPT ![records[idx].id] =
                              ApplyPatch(@, calls'[Len(calls')].props)]
        /\ calls'[Len(calls')].ret # "ok" =>
              /\ classified_count' = classified_count
              /\ store' = store]_vars

\* an accepted update was counted and the next update, which the store
\* refused, left the loop running
C19_Witness ==
    /\ pc = "record"
    /\ Len(calls) > 0
    /\ LastCall.op = "update" /\ LastCall.ret = "failed"
    /\ classified_count = 1

----------------------------------------------------------------------------
(* C20 *)

\* the endpoint returned no content: the content is empty, or nothing is
\* left of it after the sanitization
NoContent(resp) ==
    resp.kind = "content" /\ clean_response(Strip(resp.content)) = Empty

\* C20: classify returns None when the call times out, raises, meets a
\* non-success status, a response without choices or a response without
\* content (empty, or empty after the sanitization), and it never returns
\* an empty string.
C20_ClassifierFailuresCollapseToNone ==
    pc = "classified" =>
        /\ api_response.kind # "content" => classified = None
        /\ NoContent(api_response) => classified = None
        /\ classified # Empty

----------------------------------------------------------------------------
(* C21 *)

\* the reasoning texts of a response: what stands between an opening think
\* tag and the next closing tag or, when no closing tag follows, the end
RECURSIVE ReasoningTexts(_)
ReasoningTexts(s) ==
    LET open == Find(s, 1, ThinkOpen) IN
    IF open = 0 THEN {}
    ELSE LET close == Find(s, open + Len(ThinkOpen), ThinkClose) IN
         IF close = 0 THEN { SubSeq(s, open + Len(ThinkOpen), Len(s)) }
         ELSE { SubSeq(s, open + Len(ThinkOpen), close - 1) } \cup
              ReasoningTexts(SubSeq(s, close + Len(ThinkClose), Len(s)))

\* the response without its think segments
RECURSIVE OutsideThink(_)
OutsideThink(s) ==
    LET open == Find(s, 1, ThinkOpen) IN
    IF open = 0 THEN s
    ELSE LET close == Find(s, open + Len(ThinkOpen), ThinkClose) IN
         IF close = 0 THEN SubSeq(s, 1, open - 1)
         ELSE SubSeq(s, 1, open - 1) \o
              OutsideThink(SubSeq(s, close + Len(ThinkClose), Len(s)))

\* a reasoning text that is not blank and that the response does not repeat
\* outside its think segments
ReasoningOnly(content) ==
    { Strip(r) : r \in { t \in ReasoningTexts(content) :
                           /\ Strip(t) # Empty
                           /\ ~Contains(OutsideThink(content), Strip(t)) } }

\* C21: the cleaned text of a response holds no tag <...> and no reasoning
\* text of a think segment, whether or not the segment is closed.
C21_SanitizationStripsReasoningAndMarkup ==
    (pc = "classified" /\ api_response.kind = "content") =>
        /\ TagStarts(classified) = {}
        /\ \A r \in ReasoningOnly(api_response.content) :
              ~Contains(classified, r)

\* the same for the responses whose think segments are all closed
C21_ClosedSegmentsOnly ==
    (pc = "classified" /\ api_response.kind = "content"
        /\ (Find(api_response.content, 1, ThinkOpen) # 0 =>
               Find(api_response.content,
                    Find(api_response.content, 1, ThinkOpen), ThinkClose) # 0)) =>
        /\ TagStarts(classified) = {}
        /\ \A r \in ReasoningOnly(api_response.content) :
              ~Contains(classified, r)

----------------------------------------------------------------------------
(* C22 *)

\* the place of a call in the processing of one entry
OpRank(op) ==
    CASE op = "classify_time_record" -> 1
      [] op = "determine_time_type" -> 2
      [] op = "update" -> 3
      [] OTHER -> 0

\* C22: the gateway calls of a run are, in this order, the fetch of the
\* category vocabulary, the fetch of the time type vocabulary, the fetch of
\* the entries and then, entry after entry in fetched order, the category
\* classification (only for an unset category), the time type
\* classification (only for an unset time type) and the update; each
\* vocabulary is fetched once and only before the entries, each call of an
\* entry happens at most once, and a later entry's calls start only after
\* the update of the entry before it.
C22_SequentialCallOrdering ==
    /\ \A k \in DOMAIN calls :
          /\ (k = 1) <=> (calls[k].op = "get_classification_options")
          /\ (k = 2) <=> (calls[k].op = "get_time_type_options")
          /\ (k = 3) <=> (calls[k].op = "get_time_records")
          /\ k > 3 => /\ OpRank(calls[k].op) > 0
                      /\ calls[k].rid \in DOMAIN records
                      /\ calls[k].rid <= idx
          /\ calls[k].op = "classify_time_record" =>
                ~Truthy(Fetched(calls[k].rid).classification)
          /\ calls[k].op = "determine_time_type" =>
                ~Truthy(Fetched(calls[k].rid).time_type)
    /\ \A j, k \in DOMAIN calls :
          (3 < j /\ j < k) =>
              \/ calls[j].rid < calls[k].rid
              \/ /\ calls[j].rid = calls[k].rid
                 /\ OpRank(calls[j].op) < OpRank(calls[k].op)
    /\ \A k \in DOMAIN calls :
          (3 < k /\ k < Len(calls) /\ calls[k].rid # calls[k + 1].rid) =>
              calls[k].op = "update"
    /\ (pc \in {"classify_time_record", "determine_time_type", "update"}
          /\ Len(calls) > 3 /\ LastCall.rid # idx) => LastCall.op = "update"

\* a finished run in which the first entry got both classifications and its
\* update, and the second entry its calls after that
C22_Witness ==
    /\ pc = "exited"
    /\ Len(calls) >= 8
    /\ calls[4].op = "classify_time_record" /\ calls[4].rid = 1
    /\ calls[5].op = "determine_time_type" /\ calls[5].rid = 1
    /\ calls[6].op = "update" /\ calls[6].rid = 1
    /\ calls[7].rid = 2
    /\ LastCall.op = "update" /\ LastCall.rid = 2

----------------------------------------------------------------------------
(* C23 *)

\* the values an update newly assigns: those of the attributes that were
\* unset on the fetched page
NewlyAssigned(call, property) ==
    { p[2] : p \in { q \in call.props :
                        /\ q[1] = property
                        /\ ~Truthy(IF property = "classification"
                                   THEN Fetched(call.rid).classification
                                   ELSE Fetched(call.rid).time_type) } }

\* C23: a category an update newly assigns to an entry is a label of the
\* category vocabulary fetched in this run, a time type it newly assigns is
\* a label of the time type vocabulary fetched in this run, and so are the
\* values the store holds afterwards in the attributes that were unset.
C23_WrittenValuesComeFromVocabulary ==
    /\ \A u \in UpdateCalls :
          /\ \A v \in NewlyAssigned(calls[u], "classification") :
                InList(v, classification_options)
          /\ \A v \in NewlyAssigned(calls[u], "time_type") :
                InList(v, time_type_options)
    /\ \A i \in DOMAIN records :
          /\ store[i].classification # Fetched(i).classification =>
                InList(store[i].classification, classification_options)
          /\ store[i].time_type # Fetched(i).time_type =>
                InList(store[i].time_type, time_type_options)

\* the store accepted an update that assigned both attributes of an entry
\* that had neither
C23_Witness ==
    \E u \in UpdateCalls :
        /\ calls[u].ret = "ok"
        /\ BothUnset(Fetched(calls[u].rid))
        /\ NewlyAssigned(calls[u], "classification") # {}
        /\ NewlyAssigned(calls[u], "time_type") # {}
        /\ store[calls[u].rid].time_type = Deep

----------------------------------------------------------------------------
(* C24 *)

\* C24: for every answer of the classifier, None and the empty text
\* included, and every vocabulary, classify_time_record and
\* determine_time_type return the same label or both return None.
C24_OneResolutionPolicy ==
    pc = "resolved" => resolved = resolved_tt

\* both routines resolved an answer that is no label, in whatever case, to
\* a label the answer contains
C24_Witness ==
    /\ pc = "resolved"
    /\ resolved # None
    /\ resolved_tt = resolved
    /\ Len(raw) > Len(resolved)
    /\ Contains(Lower(raw), Lower(resolved))

----------------------------------------------------------------------------
(* C25 *)

CallsOf(ops, rid) ==
    { k \in DOMAIN calls : calls[k].op \in ops /\ calls[k].rid = rid }

\* the work issued so far stays within the bound of the claim
BoundedWork ==
    /\ \A op \in {"get_classification_options", "get_time_type_options",
                  "get_time_records"} :
          Cardinality(CallsOf({op}, 0)) <= 1
    /\ \A i \in DOMAIN records :
          /\ Cardinality(CallsOf({"classify_time_record", "determine_time_type"}, i)) <= 2
          /\ Cardinality(CallsOf({"update"}, i)) <= 1
    /\ Len(calls) <= 3 + 3 * Len(records)
    /\ \A k \in DOMAIN calls : calls[k].rid \in {0} \cup DOMAIN records

\* one pass over the entries: the loop takes up an entry only by moving
\* from the one before it (or from the fetch, the first), and a run that
\* reaches the end of the loop has passed every entry
SinglePass ==
    /\ (pc' = "record" /\ pc = "get_time_records") => idx' = 1
    /\ (pc' = "record" /\ pc # "get_time_records") => idx' = idx + 1
    /\ (pc' # "record" /\ pc # "get_time_records") => idx' = idx
    /\ (pc' = "exited" /\ pc = "record" /\ result' = TRUE) => idx = Len(records) + 1

\* C25: with every gateway call returning, a run terminates; at any moment
\* it has issued at most two classifier calls and one update per fetched
\* entry and at most one fetch of each vocabulary and of the entry list,
\* and it passes over the entries once, in order.
C25_BoundedWorkAndTermination ==
    /\ <>(pc = "exited")
    /\ []BoundedWork
    /\ [][SinglePass]_vars

\* a finished run that issued all the calls the bound allows
C25_Witness ==
    /\ pc = "exited"
    /\ Len(records) >= 2
    /\ Len(calls) = 3 + 3 * Len(records)

----------------------------------------------------------------------------
(* C26 *)

\* a date written as YYYY-MM-DD: four, two and two digits between hyphens
\* that name a day of the calendar
ValidDate(t) ==
    /\ Len(t) = 10
    /\ \A i \in {1, 2, 3, 4, 6, 7, 9, 10} : IsDigit(t[i])
    /\ t[5] = "-" /\ t[8] = "-"
    /\ LET y == Number(SubSeq(t, 1, 4))
           m == Number(SubSeq(t, 6, 7))
           d == Number(SubSeq(t, 9, 10))
       IN  y >= 1 /\ m \in 1..12 /\ d \in 1..DaysInMonth(y, m)

\* the date argument is given and is no valid date
MalformedDate == target_date # None /\ ~ValidDate(target_date)

\* C26: with a date argument that is given and is not a valid YYYY-MM-DD
\* date the run returns failure without any gateway call; with no date
\* argument the run works on the current date.
C26_MalformedDateRejectedBeforeIO ==
    pc \notin {"main", "start"} =>
        /\ MalformedDate => (pc = "exited" /\ result = FALSE /\ calls = <<>>)
        /\ (target_date = None /\ env = RequiredSettings) =>
              date_str = strftime(Now)

\* the same without the arguments that strptime accepts although they are not
\* written as YYYY-MM-DD, and without the empty text
C26_RejectedByStrptime ==
    pc \notin {"main", "start"} =>
        /\ (MalformedDate /\ target_date # Empty /\ ~strptime(target_date).ok) =>
              (pc = "exited" /\ result = FALSE /\ calls = <<>>)
        /\ (target_date = None /\ env = RequiredSettings) =>
              date_str = strftime(Now)

====
